---- MODULE Spec2Model ----
(***************************************************************************)
(* Kobo book scraper: the batch runner tools.concurrent_scraping, the two  *)
(* workers scraper.get_url_by_isbn and scraper.book_info, and the pipeline *)
(* of concurrency.py / main.py.                                            *)
(*                                                                         *)
(* Three specifications:                                                   *)
(*   Spec         one call of concurrent_scraping with either worker       *)
(*   SpecMain     one run of main.main()                                   *)
(*   SpecBookInfo one call of concurrency.book_info_automation             *)
(***************************************************************************)
EXTENDS Integers, Sequences, FiniteSets

\* ---- bounds of the model ----
MaxItems == 5
MaxBatch == 3
MaxIsbns == 3
MaxUrls == 3

VARIABLES
    \* concurrent_scraping(url_lists, scraping_functions, batch_sizes, ...)
    url_lists,          \* the item list, a sequence
    scraping_functions, \* "get_url_by_isbn" or "book_info"
    batch_sizes,        \* an integer, possibly 0 or negative
    pc,                 \* position of the call
    idx,                \* loop variable of the for statement
    task,               \* item position -> state of its worker invocation
    dfs,                \* list of per-item data frames (each a sequence of rows)
    final_dataframe,    \* the returned frame
    exc,                \* the exception the call raised, "None" if none
    delays,             \* number of asyncio.sleep(delay_between_batches) awaited
    invoked,            \* number of worker coroutines created
    produced,           \* item positions whose worker appended a record
    \* main.main()
    mpc, isbn_csv, isbn_lists, steps, mexc,
    \* concurrency.book_info_automation()
    bpc, url_csv, book_urls, filtered_book_urls, bexc

runVars == <<url_lists, scraping_functions, batch_sizes, pc, idx, task, dfs,
             final_dataframe, exc, delays, invoked, produced>>
mainVars == <<mpc, isbn_csv, isbn_lists, steps, mexc>>
biaVars == <<bpc, url_csv, book_urls, filtered_book_urls, bexc>>
vars == <<runVars, mainVars, biaVars>>

\* ---- helpers ----
Min(a, b) == IF a < b THEN a ELSE b

RECURSIVE Flatten(_)
Flatten(ss) == IF ss = <<>> THEN <<>> ELSE Head(ss) \o Flatten(Tail(ss))

\* ======================================================================
\* Workers (scraper.py)
\* ======================================================================

\* A worker invocation.  pc is the await it is suspended at; context and
\* browser are "none" (not created), "open", "closed" or "close_failed"
\* (close() was called and raised); infos is the list the worker fills;
\* ret is the value returned (isNone: the Python None).
NoTask == [pc |-> "none", context |-> "none", browser |-> "none",
           infos |-> <<>>, ret |-> [isNone |-> TRUE, rows |-> <<>>]]

PendingTask == [NoTask EXCEPT !.pc = "pending"]

Ended(t) == t.pc \in {"returned", "raised"}

InFlightTask(t) == t.pc \notin {"none", "returned", "raised"}

\* One step of get_url_by_isbn(isbn, headless): the awaited call the
\* invocation is suspended at completes, normally (ok) or by raising.
get_url_by_isbn(t, isbn, ok) ==
    CASE t.pc = "pending" ->
            \* load_selectors, async_playwright().__aenter__
            IF ok THEN [t EXCEPT !.pc = "launch"] ELSE [t EXCEPT !.pc = "raised"]
      [] t.pc = "launch" ->
            IF ok THEN [t EXCEPT !.pc = "new_context", !.browser = "open"]
                  ELSE [t EXCEPT !.pc = "raised"]
      [] t.pc = "new_context" ->
            IF ok THEN [t EXCEPT !.pc = "new_page", !.context = "open"]
                  ELSE [t EXCEPT !.pc = "raised"]
      [] t.pc = "new_page" ->
            IF ok THEN [t EXCEPT !.pc = "try"] ELSE [t EXCEPT !.pc = "raised"]
      [] t.pc = "try" ->
            \* except Exception: logged; finally follows on both paths
            IF ok THEN [t EXCEPT !.pc = "context_close",
                                 !.infos = <<[item |-> isbn]>>]
                  ELSE [t EXCEPT !.pc = "context_close"]
      [] t.pc = "context_close" ->
            \* finally: await context.close(), unguarded
            IF ok THEN [t EXCEPT !.pc = "browser_close", !.context = "closed"]
                  ELSE [t EXCEPT !.pc = "raised", !.context = "close_failed"]
      [] t.pc = "browser_close" ->
            \* finally: await browser.close(), unguarded; then return infos
            IF ok THEN [t EXCEPT !.pc = "returned", !.browser = "closed",
                                 !.ret = [isNone |-> FALSE, rows |-> t.infos]]
                  ELSE [t EXCEPT !.pc = "raised", !.browser = "close_failed"]
      [] OTHER -> t

\* One step of book_info(url, headless).
book_info(t, url, ok) ==
    CASE t.pc = "pending" ->
            IF ok THEN [t EXCEPT !.pc = "launch"] ELSE [t EXCEPT !.pc = "raised"]
      [] t.pc = "launch" ->
            IF ok THEN [t EXCEPT !.pc = "new_context", !.browser = "open"]
                  ELSE [t EXCEPT !.pc = "raised"]
      [] t.pc = "new_context" ->
            IF ok THEN [t EXCEPT !.pc = "new_page", !.context = "open"]
                  ELSE [t EXCEPT !.pc = "raised"]
      [] t.pc = "new_page" ->
            IF ok THEN [t EXCEPT !.pc = "try"] ELSE [t EXCEPT !.pc = "raised"]
      [] t.pc = "try" ->
            \* success: info.append(datas); return info (pending the finally)
            \* failure: except Exception logs, function falls off its end
            IF ok THEN [t EXCEPT !.pc = "context_close",
                                 !.infos = <<[item |-> url]>>]
                  ELSE [t EXCEPT !.pc = "context_close"]
      [] t.pc = "context_close" ->
            \* finally: try context.close() except Exception: logged
            IF ok THEN [t EXCEPT !.pc = "browser_close", !.context = "closed"]
                  ELSE [t EXCEPT !.pc = "browser_close", !.context = "close_failed"]
      [] t.pc = "browser_close" ->
            \* finally: try browser.close() except Exception: logged
            LET r == IF t.infos = <<>> THEN [isNone |-> TRUE, rows |-> <<>>]
                     ELSE [isNone |-> FALSE, rows |-> t.infos]
            IN IF ok THEN [t EXCEPT !.pc = "returned", !.browser = "closed", !.ret = r]
                     ELSE [t EXCEPT !.pc = "returned", !.browser = "close_failed",
                                    !.ret = r]
      [] OTHER -> t

\* ======================================================================
\* concurrent_scraping (tools.py)
\* ======================================================================

\* range(0, n, step) raises ValueError for step = 0
RangeRaises(step) == step = 0

\* idx in range(0, n, step): a negative step gives the empty range
InRange(i, n, step) == step > 0 /\ i < n

\* url_lists[idx:idx + batch_sizes], as the set of 1-based positions
BatchPositions(i, n, step) == (i + 1)..Min(i + step, n)

\* pd.DataFrame(batch_url_result): None and [] both give an empty frame
DataFrame(r) == IF r.isNone THEN <<>> ELSE r.rows

\* mutant of GatherDone: a race, the first coroutine to return ends the wait
GatherDoneAny(b) == \E i \in b : task[i].pc = "returned"

\* asyncio.gather(*coroutines) has a result once every coroutine returned
GatherDone(b) == \A i \in b : task[i].pc = "returned"

\* asyncio.gather without return_exceptions: the first exception of a child
\* is raised to the awaiting caller, the other children keep running
GatherRaises(b) == \E i \in b : task[i].pc = "raised"

\* mutant of GatherResults: results delivered last coroutine first
GatherResultsReversed(lo, hi) == [k \in 1..(hi - lo + 1) |-> task[hi - k + 1].ret]

\* the results of gather, in the order of the coroutines given
GatherResults(lo, hi) == [k \in 1..(hi - lo + 1) |-> task[lo + k - 1].ret]

\* mutant of ConcatRaises: a concat that accepts the empty list
ConcatNeverRaises(frames) == FALSE

\* pd.concat(dfs) raises ValueError("No objects to concatenate") on []
ConcatRaises(frames) == frames = <<>>

PdConcat(frames) == Flatten(frames)

\* line 100: the range object is built, then the first iteration is tried
Call ==
    /\ pc = "call"
    /\ IF RangeRaises(batch_sizes)
       THEN /\ pc' = "raised"
            /\ exc' = "ValueError: range() arg 3 must not be zero"
       ELSE /\ pc' = "for"
            /\ exc' = exc
    /\ UNCHANGED <<url_lists, scraping_functions, batch_sizes, idx, task, dfs,
                   final_dataframe, delays, invoked, produced>>
    /\ UNCHANGED <<mainVars, biaVars>>

\* lines 100-103: next idx, slice, create the coroutines, enter gather.
\* Rebinding coroutines drops the finished invocations of the batch before.
ForNext ==
    /\ pc = "for"
    /\ InRange(idx, Len(url_lists), batch_sizes)
    /\ LET b == BatchPositions(idx, Len(url_lists), batch_sizes)
       IN /\ task' = [i \in DOMAIN task |->
                        IF i \in b THEN PendingTask
                        ELSE IF Ended(task[i]) THEN NoTask ELSE task[i]]
          /\ invoked' = invoked + Cardinality(b)
    /\ pc' = "gather"
    /\ UNCHANGED <<url_lists, scraping_functions, batch_sizes, idx, dfs,
                   final_dataframe, exc, delays, produced>>
    /\ UNCHANGED <<mainVars, biaVars>>

\* line 100: the range is exhausted
ForEnd ==
    /\ pc = "for"
    /\ ~InRange(idx, Len(url_lists), batch_sizes)
    /\ pc' = "concat"
    /\ UNCHANGED <<url_lists, scraping_functions, batch_sizes, idx, task, dfs,
                   final_dataframe, exc, delays, invoked, produced>>
    /\ UNCHANGED <<mainVars, biaVars>>

\* a worker invocation of get_url_by_isbn advances by one await
GetUrlByIsbnStep(i) ==
    /\ scraping_functions = "get_url_by_isbn"
    /\ InFlightTask(task[i])
    /\ \E ok \in BOOLEAN :
         LET t == get_url_by_isbn(task[i], url_lists[i], ok)
         IN /\ task' = [task EXCEPT ![i] = t]
            /\ produced' = IF t.infos # <<>> THEN produced \cup {i} ELSE produced
    /\ UNCHANGED <<url_lists, scraping_functions, batch_sizes, pc, idx, dfs,
                   final_dataframe, exc, delays, invoked>>
    /\ UNCHANGED <<mainVars, biaVars>>

\* a worker invocation of book_info advances by one await
BookInfoStep(i) ==
    /\ scraping_functions = "book_info"
    /\ InFlightTask(task[i])
    /\ \E ok \in BOOLEAN :
         LET t == book_info(task[i], url_lists[i], ok)
         IN /\ task' = [task EXCEPT ![i] = t]
            /\ produced' = IF t.infos # <<>> THEN produced \cup {i} ELSE produced
    /\ UNCHANGED <<url_lists, scraping_functions, batch_sizes, pc, idx, dfs,
                   final_dataframe, exc, delays, invoked>>
    /\ UNCHANGED <<mainVars, biaVars>>

\* lines 103-106: gather returns, the frames are built and appended
GatherReturn ==
    /\ pc = "gather"
    /\ LET lo == idx + 1
           hi == Min(idx + batch_sizes, Len(url_lists))
       IN /\ GatherDone(lo..hi)
          /\ LET batch_urls_results == GatherResults(lo, hi)
                 batch_dataframes == [k \in DOMAIN batch_urls_results |->
                                        DataFrame(batch_urls_results[k])]
             IN dfs' = dfs \o batch_dataframes
    /\ pc' = "sleep"
    /\ UNCHANGED <<url_lists, scraping_functions, batch_sizes, idx, task,
                   final_dataframe, exc, delays, invoked, produced>>
    /\ UNCHANGED <<mainVars, biaVars>>

\* line 103: gather raises a child's exception; nothing in
\* concurrent_scraping catches it
GatherRaise ==
    /\ pc = "gather"
    /\ GatherRaises(BatchPositions(idx, Len(url_lists), batch_sizes))
    /\ pc' = "raised"
    /\ exc' = "WorkerError"
    /\ UNCHANGED <<url_lists, scraping_functions, batch_sizes, idx, task, dfs,
                   final_dataframe, delays, invoked, produced>>
    /\ UNCHANGED <<mainVars, biaVars>>

\* line 109: await asyncio.sleep(delay_between_batches), then the loop head
Sleep ==
    /\ pc = "sleep"
    /\ delays' = delays + 1
    /\ idx' = idx + batch_sizes
    /\ pc' = "for"
    /\ UNCHANGED <<url_lists, scraping_functions, batch_sizes, task, dfs,
                   final_dataframe, exc, invoked, produced>>
    /\ UNCHANGED <<mainVars, biaVars>>

\* lines 112-113: pd.concat(dfs) and return
Concat ==
    /\ pc = "concat"
    /\ IF ConcatRaises(dfs)
       THEN /\ pc' = "raised"
            /\ exc' = "ValueError: No objects to concatenate"
            /\ final_dataframe' = final_dataframe
       ELSE /\ pc' = "done"
            /\ exc' = exc
            /\ final_dataframe' = PdConcat(dfs)
    /\ UNCHANGED <<url_lists, scraping_functions, batch_sizes, idx, task, dfs,
                   delays, invoked, produced>>
    /\ UNCHANGED <<mainVars, biaVars>>

MainIdle ==
    /\ mpc = "off" /\ isbn_csv = <<>> /\ isbn_lists = <<>> /\ steps = <<>>
    /\ mexc = "None"

BiaIdle ==
    /\ bpc = "off" /\ url_csv = <<>> /\ book_urls = <<>>
    /\ filtered_book_urls = <<>> /\ bexc = "None"

RunIdle ==
    /\ url_lists = <<>> /\ scraping_functions = "get_url_by_isbn"
    /\ batch_sizes = 1 /\ pc = "off" /\ idx = 0 /\ task = <<>> /\ dfs = <<>>
    /\ final_dataframe = <<>> /\ exc = "None" /\ delays = 0 /\ invoked = 0
    /\ produced = {}

Init ==
    /\ \E n \in 0..MaxItems : url_lists = [i \in 1..n |-> i]
    /\ scraping_functions \in {"get_url_by_isbn", "book_info"}
    /\ batch_sizes \in (-1)..MaxBatch
    /\ pc = "call"
    /\ idx = 0
    /\ task = [i \in 1..Len(url_lists) |-> NoTask]
    /\ dfs = <<>>
    /\ final_dataframe = <<>>
    /\ exc = "None"
    /\ delays = 0
    /\ invoked = 0
    /\ produced = {}
    /\ MainIdle
    /\ BiaIdle

Next ==
    \/ Call
    \/ ForNext
    \/ ForEnd
    \/ \E i \in 1..Len(url_lists) : GetUrlByIsbnStep(i)
    \/ \E i \in 1..Len(url_lists) : BookInfoStep(i)
    \/ GatherReturn
    \/ GatherRaise
    \/ Sleep
    \/ Concat

Spec == Init /\ [][Next]_vars

\* ======================================================================
\* Pipeline (main.py, concurrency.py)
\* ======================================================================

\* identifiers the input CSV may hold
ISBNS == {"9780001", "9780002", "9780003"}

\* strings that are searched for a substring are sequences of characters
Query == <<"q", "u", "e", "r", "y">>

SearchUrl == <<"s", "?", "q", "u", "e", "r", "y", "=", "1">>

BookUrl == <<"e", "b", "o", "o", "k", "/", "a">>

OtherBookUrl == <<"e", "b", "o", "o", "k", "/", "q", "u">>

\* values the url column of the intermediate CSV may hold
URLS == {Query, SearchUrl, BookUrl, OtherBookUrl}

\* all sequences over S of length 0..n
SeqsUpTo(S, n) == UNION {[1..k -> S] : k \in 0..n}

\* async def logging_debugging(name, level = logging.DEBUG): one parameter
\* without a default
LoggingDebuggingRequiredArgs == 1

\* await logging_debugging(): the call sites pass no argument
LoggingDebuggingGivenArgs == 0

\* a call with fewer arguments than parameters without default raises
\* TypeError before the coroutine is created
logging_debugging(given) == IF given < LoggingDebuggingRequiredArgs
                            THEN "TypeError" ELSE "None"

\* Python's `x in s` for a str s: x occurs as a substring
StrContains(x, s) ==
    \E k \in 0..(Len(s) - Len(x)) : SubSeq(s, k + 1, k + Len(x)) = x

\* Python's `x in l` for a list l: some element equals x
ListContains(x, l) == \E k \in DOMAIN l : l[k] = x

\* [url for url in book_urls if not 'query' in book_urls]
FilterBookUrls(urls) ==
    LET keep(url) == ~ListContains(Query, urls) IN SelectSeq(urls, keep)

\* main.py 37-44: configuration, print, await asyncio.sleep(2), then the
\* call of isbn_automation
MainStart ==
    /\ mpc = "main"
    /\ mpc' = "isbn_automation"
    /\ UNCHANGED <<isbn_csv, isbn_lists, steps, mexc>>
    /\ UNCHANGED <<runVars, biaVars>>

\* concurrency.py 17-22: print, read the isbn13 column of the input CSV
IsbnRead ==
    /\ mpc = "isbn_automation"
    /\ isbn_lists' = isbn_csv
    /\ steps' = Append(steps, "read_identifiers")
    /\ mpc' = "isbn_logging"
    /\ UNCHANGED <<isbn_csv, mexc>>
    /\ UNCHANGED <<runVars, biaVars>>

\* concurrency.py 26: await logging_debugging().  The TypeError is caught
\* neither by isbn_automation nor by main, so the run ends here and lines
\* 29-35 of isbn_automation and lines 49-54 of main are never reached.
IsbnLogging ==
    /\ mpc = "isbn_logging"
    /\ LET e == logging_debugging(LoggingDebuggingGivenArgs)
       IN /\ mexc' = e
          /\ mpc' = IF e = "None" THEN "isbn_make_dir" ELSE "raised"
    /\ UNCHANGED <<isbn_csv, isbn_lists, steps>>
    /\ UNCHANGED <<runVars, biaVars>>

InitMain ==
    /\ isbn_csv \in SeqsUpTo(ISBNS, MaxIsbns)
    /\ mpc = "main"
    /\ isbn_lists = <<>>
    /\ steps = <<>>
    /\ mexc = "None"
    /\ RunIdle
    /\ BiaIdle

NextMain ==
    \/ MainStart
    \/ IsbnRead
    \/ IsbnLogging

SpecMain == InitMain /\ [][NextMain]_vars

\* concurrency.py 38-41: print, read the url column of the intermediate CSV
BiaRead ==
    /\ bpc = "book_info_automation"
    /\ book_urls' = url_csv
    /\ bpc' = "filter"
    /\ UNCHANGED <<url_csv, filtered_book_urls, bexc>>
    /\ UNCHANGED <<runVars, mainVars>>

\* concurrency.py 43: the filter of the failed searches
BiaFilter ==
    /\ bpc = "filter"
    /\ filtered_book_urls' = FilterBookUrls(book_urls)
    /\ bpc' = "bia_logging"
    /\ UNCHANGED <<url_csv, book_urls, bexc>>
    /\ UNCHANGED <<runVars, mainVars>>

\* concurrency.py 49: await logging_debugging(), as in isbn_automation
BiaLogging ==
    /\ bpc = "bia_logging"
    /\ LET e == logging_debugging(LoggingDebuggingGivenArgs)
       IN /\ bexc' = e
          /\ bpc' = IF e = "None" THEN "bia_make_dir" ELSE "raised"
    /\ UNCHANGED <<url_csv, book_urls, filtered_book_urls>>
    /\ UNCHANGED <<runVars, mainVars>>

InitBookInfo ==
    /\ url_csv \in SeqsUpTo(URLS, MaxUrls)
    /\ bpc = "book_info_automation"
    /\ book_urls = <<>>
    /\ filtered_book_urls = <<>>
    /\ bexc = "None"
    /\ RunIdle
    /\ MainIdle

NextBookInfo ==
    \/ BiaRead
    \/ BiaFilter
    \/ BiaLogging

SpecBookInfo == InitBookInfo /\ [][NextBookInfo]_vars

\* ======================================================================
\* Properties of concurrent_scraping and the workers (under Spec)
\* ======================================================================

Range(s) == {s[k] : k \in DOMAIN s}

Record(i) == [item |-> url_lists[i]]

\* the records of the items in 1..k that produced one, in input order
RECURSIVE RecordsUpTo(_)
RecordsUpTo(k) ==
    IF k = 0 THEN <<>>
    ELSE RecordsUpTo(k - 1) \o (IF k \in produced THEN <<Record(k)>> ELSE <<>>)

InFlight == {i \in DOMAIN task : InFlightTask(task[i])}

\* 0-based number of the batch that item position i belongs to
BatchOf(i) == (i - 1) \div batch_sizes

\* number of batches of the call, ceil(len / batch_sizes)
NumBatches == (Len(url_lists) + batch_sizes - 1) \div batch_sizes

CallEnded == pc \in {"done", "raised"}

\* C1: with batch size >= 1, a failure inside a worker invocation is never
\* raised to the caller of concurrent_scraping, and when every invocation
\* fails the call returns an empty result.
C1_WorkerFailureNeverRaised ==
    batch_sizes >= 1 /\ Len(url_lists) >= 1 =>
        /\ exc # "WorkerError"
        /\ (CallEnded /\ produced = {} => pc = "done" /\ final_dataframe = <<>>)

\* C2: when the call returns it has collected one slot per item (empty for a
\* failed item) and the returned records are those of the successful items,
\* in input order.
C2_SlotsAndOrder ==
    pc = "done" =>
        /\ Len(dfs) = Len(url_lists)
        /\ \A i \in 1..Len(dfs) :
             dfs[i] = IF i \in produced THEN <<Record(i)>> ELSE <<>>
        /\ final_dataframe = RecordsUpTo(Len(url_lists))

\* the example of C2: 5 items, batch size 2, only the 2nd and 4th succeed
C2_Witness ==
    /\ pc = "done" /\ Len(url_lists) = 5 /\ batch_sizes = 2
    /\ produced = {2, 4}
    /\ final_dataframe = <<[item |-> 2], [item |-> 4]>>

\* C3: the invocations in flight all belong to the batch the call is
\* gathering, there are at most batch_sizes of them, and that batch was
\* started only after one delay per earlier batch had been awaited.
C3_BatchBarrier ==
    /\ InFlight # {} => batch_sizes >= 1 /\ pc \in {"gather", "raised"}
    /\ Cardinality(InFlight) <= IF batch_sizes >= 1 THEN batch_sizes ELSE 0
    /\ \A i \in InFlight :
         /\ BatchOf(i) = idx \div batch_sizes
         /\ delays = BatchOf(i)
    /\ \A i, j \in InFlight : BatchOf(i) = BatchOf(j)

\* a full second batch is running
C3_Witness ==
    /\ batch_sizes >= 2 /\ idx > 0 /\ pc = "gather"
    /\ Cardinality(InFlight) = batch_sizes
    /\ \A i \in InFlight : task[i].pc = "try"

\* C4: a call that runs N >= 1 batches awaits the delay exactly N-1 times
\* (never after the last batch); with 0 items it awaits it 0 times.
C4_DelayBetweenBatchesOnly ==
    batch_sizes >= 1 =>
        /\ Len(url_lists) = 0 => delays = 0
        /\ Len(url_lists) >= 1 =>
             /\ delays <= NumBatches - 1
             /\ (pc = "done" => delays = NumBatches - 1)

\* C5: an empty item list with batch size >= 1 returns an empty result
\* without raising, with no worker invoked and no delay awaited.
C5_EmptyListReturnsEmpty ==
    batch_sizes >= 1 /\ Len(url_lists) = 0 =>
        /\ invoked = 0 /\ delays = 0
        /\ exc = "None" /\ pc # "raised"
        /\ (pc = "done" => final_dataframe = <<>>)

\* C6: when a worker invocation of a batch raises, the call still ends
\* normally having run every batch, and the records of the invocations
\* that returned are in its result.
C6_SiblingIsolation ==
    (CallEnded /\ \E i \in DOMAIN task : task[i].pc = "raised") =>
        /\ pc = "done"
        /\ invoked = Len(url_lists)
        /\ \A j \in produced :
             task[j].pc = "returned" => Record(j) \in Range(final_dataframe)

\* C7: with a batch size of 0 or less the call never returns normally,
\* invokes no worker and awaits no delay; where it stops it has raised.
C7_NonPositiveBatchFails ==
    batch_sizes <= 0 =>
        /\ pc \in {"call", "for", "concat", "raised"}
        /\ invoked = 0 /\ delays = 0
        /\ \A i \in DOMAIN task : task[i] = NoTask
        /\ (pc = "raised" <=> exc # "None")

\* a non-positive batch size with a non-empty list has raised
C7_Witness ==
    /\ batch_sizes < 0 /\ Len(url_lists) > 0
    /\ pc = "raised" /\ exc = "ValueError: No objects to concatenate"

\* C8: an invocation that opened a context has, when it ends, called close
\* on both the context and the browser.
C8_SessionReleased ==
    \A i \in DOMAIN task :
        Ended(task[i]) /\ task[i].context # "none" =>
            /\ task[i].context \in {"closed", "close_failed"}
            /\ task[i].browser \in {"closed", "close_failed"}

\* ======================================================================
\* Properties of the pipeline (under SpecMain and SpecBookInfo)
\* ======================================================================

PipelineSteps == <<"read_identifiers", "stage_a", "write_urls", "read_urls",
                   "stage_b", "write_dataset">>

IsPrefix(s, t) == Len(s) <= Len(t) /\ SubSeq(t, 1, Len(s)) = s

\* C9: a run of main performs, in this order, the read of the identifiers,
\* Stage A, the write of the URL file, its read, Stage B and the write of
\* the dataset; all six have occurred when the run ends.
C9_PipelineOrder ==
    /\ IsPrefix(steps, PipelineSteps)
    /\ (mpc \in {"done", "raised"} => steps = PipelineSteps)

\* C10: the list handed to Stage B is the url column without the URLs that
\* contain 'query', in the original order.
C10_FailedSearchesExcluded ==
    bpc \in {"bia_logging", "bia_make_dir", "raised"} =>
        LET ok(url) == ~StrContains(Query, url)
        IN filtered_book_urls = SelectSeq(book_urls, ok)

====
